---- MODULE Spec2Model ----
(***************************************************************************)
(* Model of the desktop shell of ai-mentor (src-tauri/src/lib.rs): the     *)
(* single-instance lock file and the backend sidecar supervisor.           *)
(*                                                                         *)
(* Two specifications share the definitions below.                         *)
(*   LockSpec  several front-end processes start, race for the lock file,  *)
(*             close or crash while the clock advances.                    *)
(*   Spec      one front-end process (Self) that holds the lock runs       *)
(*             setup, the UI commands and the background flow threads.     *)
(*                                                                         *)
(* Environment assumptions: the clock does not run backwards, the write of *)
(* the lock file succeeds, and the mutex is never poisoned (no thread      *)
(* panics while it holds the guard).                                       *)
(***************************************************************************)
EXTENDS Integers, Sequences, FiniteSets

\* ---------------------------------------------------------------- bounds
NumInstances == 3      \* front-end processes launched in LockSpec
MaxNow == 120          \* the clock stops advancing here (seconds)
MaxCommands == 1       \* retry / kill-and-retry commands issued in Spec
MaxPolls == 2          \* health polls that fit before the 10s deadline

\* ------------------------------------------------------- program constants
STALE_SECS == 60
UNKNOWN_AGE_SECS == 999
\* Faulty variant: the reason code misspelt.
ReasonPortInUseOnly == "PORT_IN_USE"
NOT_READY_REASON_PORT_IN_USE == "PORT_IN_USE_NO_HEALTH"

None == "None"
NoChild == 0

Instances == 1..NumInstances
\* Threads of Self: the UI thread that serves the status queries, and one
\* per flow (the command handler that starts a flow runs under its id).
UiThread == 0
MutexFree == -1
Self == 1
Flows == 1..(MaxCommands + 1)
AutostartFlow == 1
Threads == {UiThread} \cup Flows
NoWrite == [st |-> "", r |-> "", c |-> "", next |-> ""]

VARIABLES
  now,               \* SystemTime::now(), in seconds
  lockFile,          \* app.lock: [exists, mtime, pid]
  ipc,               \* position of each front-end process in run()
  isWindows,         \* cfg(target_os = "windows")
  autostart,         \* autostart_enabled()
  setupDone,         \* the Builder::setup closure has run
  status,            \* BackendStateInner.status
  not_ready_reason,  \* BackendStateInner.not_ready_reason
  child,             \* BackendStateInner.child (NoChild = None, else the id of the child)
  killSent,          \* children that were sent a kill (child.kill() or taskkill)
  pc,                \* position of each flow thread
  origin,            \* what started each flow: autostart, retry or kill
  polls,             \* polls made by each flow's loop
  spawnOutcome,      \* outcome of each flow's spawn step
  probeSeen,         \* outcome of each flow's initial probe_health_ok()
  portSeen,          \* outcome of each flow's port_8000_in_use()
  outcome,           \* how each flow ended
  wrote,             \* the status values each flow wrote, in order
  heldAtInvoke,      \* the handle held when the command that started the flow ran
  resp,              \* the response to the latest health request
  statusLog,         \* successive distinct answers of get_backend_status
  ncmds,             \* retry / kill-and-retry commands invoked so far
  nspawns,           \* spawn steps run so far, over all flows
  mutex,             \* holder of BackendState.inner (MutexFree = unlocked)
  mpc,               \* MutexSpec: position of each thread, lock scopes included
  pend               \* MutexSpec: the write a thread makes once it holds the mutex

lockVars == <<now, lockFile, ipc>>
cfgVars == <<isWindows, autostart, setupDone>>
stateVars == <<status, not_ready_reason, child>>
flowVars == <<pc, origin, polls, spawnOutcome, probeSeen, portSeen, outcome, wrote, heldAtInvoke>>
mtxVars == <<mutex, mpc, pend>>
supVars == <<cfgVars, stateVars, killSent, flowVars, resp, statusLog, ncmds, nspawns, mtxVars>>
vars == <<lockVars, supVars>>

\* ------------------------------------------------------ health responses
\* Bodies the health endpoint may answer with, as sequences of characters.
Q == "\""
BodyOk == <<"{", Q, "s", "t", "a", "t", "u", "s", Q, ":", Q, "o", "k", Q, "}">>
BodyOkSpaced == <<"{", Q, "s", "t", "a", "t", "u", "s", Q, ":", " ", Q, "o", "k", Q, "}">>
BodyToken == <<"{", Q, "t", "o", "k", "e", "n", Q, ":", Q, "a", "b", "c", Q, "}">>
BodyDown == <<"{", Q, "s", "t", "a", "t", "u", "s", Q, ":", Q, "d", "o", "w", "n", Q, "}">>
BodyEmpty == <<>>
Bodies == {BodyOk, BodyOkSpaced, BodyToken, BodyDown, BodyEmpty}

MarkerCompact == <<Q, "s", "t", "a", "t", "u", "s", Q, ":", Q, "o", "k", Q>>
MarkerSpaced == <<Q, "s", "t", "a", "t", "u", "s", Q, ":", " ", Q, "o", "k", Q>>
MarkerBare == <<"o", "k">>

\* str::contains
Contains(s, p) ==
  \E i \in 0..(Len(s) - Len(p)) : SubSeq(s, i + 1, i + Len(p)) = p

\* A health request either fails to send, or yields a status and a body
\* whose text may fail to be read.
NoResponse == [send |-> FALSE, success |-> FALSE, text |-> FALSE, body |-> BodyEmpty]
Responses ==
  {NoResponse}
    \cup {[send |-> TRUE, success |-> FALSE, text |-> TRUE, body |-> BodyDown]}
    \cup {[send |-> TRUE, success |-> TRUE, text |-> FALSE, body |-> BodyEmpty]}
    \cup {[send |-> TRUE, success |-> TRUE, text |-> TRUE, body |-> b] : b \in Bodies}

probe_health_ok(r) ==
  /\ r.send
  /\ r.success
  /\ r.text
  /\ \/ Contains(r.body, MarkerCompact)
     \/ Contains(r.body, MarkerSpaced)
     \/ Contains(r.body, MarkerBare)

\* The test of the polling loop: Ok(res) and res.status().is_success().
poll_health_ok(r) == r.send /\ r.success

\* ------------------------------------------------------------ lock file
NoLock == [exists |-> FALSE, mtime |-> 0, pid |-> 0]

\* SystemTime::now().duration_since(modified).unwrap_or(999s)
LockAge(t, mtime) == IF t >= mtime THEN t - mtime ELSE UNKNOWN_AGE_SECS

\* Faulty variant: a lock of exactly 60 seconds still counts as fresh.
AlreadyRunningInclusive(f, t) == f.exists /\ LockAge(t, f.mtime) <= STALE_SECS

AlreadyRunning(f, t) == f.exists /\ LockAge(t, f.mtime) < STALE_SECS

\* try_single_instance, first half: read the metadata and decide.
CheckLock(i) ==
  /\ ipc[i] = "start"
  /\ ipc' = [ipc EXCEPT ![i] = IF AlreadyRunning(lockFile, now) THEN "exited" ELSE "write"]
  /\ UNCHANGED <<now, lockFile, supVars>>

\* try_single_instance, second half: fs::write(lock_path, pid).
WriteLock(i) ==
  /\ ipc[i] = "write"
  /\ lockFile' = [exists |-> TRUE, mtime |-> now, pid |-> i]
  /\ ipc' = [ipc EXCEPT ![i] = "running"]
  /\ UNCHANGED <<now, supVars>>

remove_lock == NoLock

\* Faulty variant: closing the window also takes and kills the child.
CloseRequestedKills(i) ==
  /\ ipc[i] = "running"
  /\ lockFile' = remove_lock
  /\ ipc' = [ipc EXCEPT ![i] = "closed"]
  /\ killSent' = IF child = NoChild THEN killSent ELSE killSent \cup {child}
  /\ child' = NoChild
  /\ UNCHANGED <<now, cfgVars, status, not_ready_reason, flowVars, resp,
                 statusLog, ncmds, nspawns, mtxVars>>

\* on_window_event(CloseRequested): remove_lock(); the window closes and the
\* process ends.
CloseRequested(i) ==
  /\ ipc[i] = "running"
  /\ lockFile' = remove_lock
  /\ ipc' = [ipc EXCEPT ![i] = "closed"]
  /\ UNCHANGED <<now, supVars>>

\* Abnormal termination: the lock file stays.
Crash(i) ==
  /\ ipc[i] = "running"
  /\ ipc' = [ipc EXCEPT ![i] = "crashed"]
  /\ UNCHANGED <<now, lockFile, supVars>>

\* The clock advances in steps of half the staleness window.
TickSecs == STALE_SECS \div 2

Tick ==
  /\ now + TickSecs <= MaxNow
  /\ now' = now + TickSecs
  /\ UNCHANGED <<lockFile, ipc, supVars>>

\* ------------------------------------------------------------ supervisor
\* get_backend_status
get_backend_status(st, r) ==
  IF st = "NOT_READY" /\ r # None THEN "NOT_READY:" \o r ELSE st

is_backend_ready(st) == st = "READY"

Observe(log, st, r) ==
  IF log[Len(log)] = get_backend_status(st, r)
  THEN log
  ELSE Append(log, get_backend_status(st, r))

Spawned == {f \in Flows : spawnOutcome[f] = "ok"}
Live == Spawned \ killSent

\* BackendState::default() and the idle flow threads.
SupInit ==
  /\ isWindows \in BOOLEAN
  /\ autostart \in BOOLEAN
  /\ autostart => isWindows
  /\ setupDone = FALSE
  /\ status = "NOT_READY"
  /\ not_ready_reason = None
  /\ child = NoChild
  /\ killSent = {}
  /\ pc = [f \in Flows |-> "idle"]
  /\ origin = [f \in Flows |-> "none"]
  /\ polls = [f \in Flows |-> 0]
  /\ spawnOutcome = [f \in Flows |-> "none"]
  /\ probeSeen = [f \in Flows |-> "none"]
  /\ portSeen = [f \in Flows |-> "none"]
  /\ outcome = [f \in Flows |-> "none"]
  /\ wrote = [f \in Flows |-> <<>>]
  /\ heldAtInvoke = [f \in Flows |-> NoChild]
  /\ resp = NoResponse
  /\ statusLog = <<"NOT_READY">>
  /\ ncmds = 0
  /\ nspawns = 0
  /\ mutex = MutexFree
  /\ mpc = [t \in Threads |-> "idle"]
  /\ pend = [t \in Threads |-> NoWrite]

LockInit ==
  /\ now = 0
  /\ lockFile = NoLock
  /\ ipc = [i \in Instances |-> "start"]

\* run() up to the Builder: Self passed try_single_instance at time 0.
RunInit ==
  /\ now = 0
  /\ lockFile = [exists |-> TRUE, mtime |-> 0, pid |-> Self]
  /\ ipc = [i \in Instances |-> IF i = Self THEN "running" ELSE "start"]

Running == ipc[Self] = "running"

\* A write of the status record under the mutex, as seen by the callers of
\* get_backend_status.
SetState(st, r, c) ==
  /\ status' = st
  /\ not_ready_reason' = r
  /\ child' = c
  /\ statusLog' = Observe(statusLog, st, r)

\* The setup closure of run(): start the autostart flow when the gate holds.
Setup ==
  /\ Running
  /\ ~setupDone
  /\ setupDone' = TRUE
  /\ \E resolved \in BOOLEAN :
       IF autostart /\ resolved
       THEN /\ pc' = [pc EXCEPT ![AutostartFlow] = "probe"]
            /\ origin' = [origin EXCEPT ![AutostartFlow] = "autostart"]
            /\ UNCHANGED <<stateVars, statusLog>>
       ELSE /\ IF autostart
               THEN SetState("NOT_READY", not_ready_reason, child)
               ELSE UNCHANGED <<stateVars, statusLog>>
            /\ UNCHANGED <<pc, origin>>
  /\ UNCHANGED <<lockVars, mtxVars, nspawns, isWindows, autostart, killSent, polls, spawnOutcome,
                 probeSeen, portSeen, outcome, wrote, heldAtInvoke, resp, ncmds>>

\* Faulty variant: the handle is taken and dropped without a kill.
TakeWithoutKill(sent, c) == sent

\* if let Some(mut child) = g.child.take() { let _ = child.kill(); }
TakeAndKill(sent, c) == IF c = NoChild THEN sent ELSE sent \cup {c}

NextFlow == ncmds + 2

\* Faulty variant: the retry runs the full flow, probe and port check first.
RetryBackendStartProbes ==
  /\ Running
  /\ setupDone
  /\ ncmds < MaxCommands
  /\ ncmds' = ncmds + 1
  /\ \E resolved \in BOOLEAN :
       IF resolved
       THEN /\ killSent' = TakeAndKill(killSent, child)
            /\ SetState("NOT_READY", None, NoChild)
            /\ pc' = [pc EXCEPT ![NextFlow] = "probe"]
            /\ origin' = [origin EXCEPT ![NextFlow] = "retry"]
            /\ heldAtInvoke' = [heldAtInvoke EXCEPT ![NextFlow] = child]
       ELSE UNCHANGED <<stateVars, statusLog, killSent, pc, origin, heldAtInvoke>>
  /\ UNCHANGED <<lockVars, mtxVars, nspawns, cfgVars, polls, spawnOutcome, probeSeen, portSeen,
                 outcome, wrote, resp>>

\* retry_backend_start
RetryBackendStart ==
  /\ Running
  /\ setupDone
  /\ ncmds < MaxCommands
  /\ ncmds' = ncmds + 1
  /\ \E resolved \in BOOLEAN :
       IF resolved
       THEN /\ killSent' = TakeAndKill(killSent, child)
            /\ SetState("NOT_READY", None, NoChild)
            /\ pc' = [pc EXCEPT ![NextFlow] = "spawn"]
            /\ origin' = [origin EXCEPT ![NextFlow] = "retry"]
            /\ heldAtInvoke' = [heldAtInvoke EXCEPT ![NextFlow] = child]
       ELSE UNCHANGED <<stateVars, statusLog, killSent, pc, origin, heldAtInvoke>>
  /\ UNCHANGED <<lockVars, mtxVars, nspawns, cfgVars, polls, spawnOutcome, probeSeen, portSeen,
                 outcome, wrote, resp>>

\* taskkill /F /IM ai-mentor-backend.exe (Windows only)
TaskKill(sent) == IF isWindows THEN sent \cup Spawned ELSE sent

\* kill_backend_and_retry
KillBackendAndRetry ==
  /\ Running
  /\ setupDone
  /\ ncmds < MaxCommands
  /\ ncmds' = ncmds + 1
  /\ killSent' = TakeAndKill(TaskKill(killSent), child)
  /\ SetState("NOT_READY", None, NoChild)
  /\ \E resolved \in BOOLEAN :
       IF resolved
       THEN /\ pc' = [pc EXCEPT ![NextFlow] = "probe"]
            /\ origin' = [origin EXCEPT ![NextFlow] = "kill"]
            /\ heldAtInvoke' = [heldAtInvoke EXCEPT ![NextFlow] = child]
       ELSE UNCHANGED <<pc, origin, heldAtInvoke>>
  /\ UNCHANGED <<lockVars, mtxVars, nspawns, cfgVars, polls, spawnOutcome, probeSeen, portSeen,
                 outcome, wrote, resp>>

\* Faulty variant: no return after the healthy probe, the flow goes on to the
\* port check.
FlowDoneFallThrough(f, how) ==
  /\ pc' = [pc EXCEPT ![f] = IF how = "already_healthy" THEN "port" ELSE "done"]
  /\ outcome' = [outcome EXCEPT ![f] = how]
  /\ polls' = [polls EXCEPT ![f] = 0]

\* Faulty variant: a failed or timed-out flow starts over at the spawn step.
FlowDoneRespawns(f, how) ==
  /\ pc' = [pc EXCEPT ![f] = IF how \in {"spawn_failed", "timeout"} THEN "spawn" ELSE "done"]
  /\ outcome' = [outcome EXCEPT ![f] = how]
  /\ polls' = [polls EXCEPT ![f] = 0]

\* The thread returns; its loop counter goes with it.
FlowDone(f, how) ==
  /\ pc' = [pc EXCEPT ![f] = "done"]
  /\ outcome' = [outcome EXCEPT ![f] = how]
  /\ polls' = [polls EXCEPT ![f] = 0]

Wrote(f, st) == wrote' = [wrote EXCEPT ![f] = Append(@, st)]

\* run_autostart_flow, step 1: probe health; if healthy set READY and return.
ProbeHealth(f) ==
  /\ Running
  /\ pc[f] = "probe"
  /\ \E r \in Responses :
       /\ resp' = r
       /\ IF probe_health_ok(r)
          THEN /\ probeSeen' = [probeSeen EXCEPT ![f] = "healthy"]
               /\ SetState("READY", None, child)
               /\ Wrote(f, "READY")
               /\ FlowDone(f, "already_healthy")
          ELSE /\ probeSeen' = [probeSeen EXCEPT ![f] = "unhealthy"]
               /\ pc' = [pc EXCEPT ![f] = "port"]
               /\ UNCHANGED <<stateVars, statusLog, wrote, outcome, polls>>
  /\ UNCHANGED <<lockVars, mtxVars, nspawns, cfgVars, killSent, origin, spawnOutcome,
                 portSeen, heldAtInvoke, ncmds>>

\* run_autostart_flow, step 2: port 8000 in use but unhealthy.
PortCheck(f) ==
  /\ Running
  /\ pc[f] = "port"
  /\ \E inUse \in BOOLEAN :
       IF inUse
       THEN /\ portSeen' = [portSeen EXCEPT ![f] = "occupied"]
            /\ SetState("NOT_READY", NOT_READY_REASON_PORT_IN_USE, child)
            /\ Wrote(f, "NOT_READY")
            /\ FlowDone(f, "port_in_use")
       ELSE /\ portSeen' = [portSeen EXCEPT ![f] = "free"]
            /\ pc' = [pc EXCEPT ![f] = "spawn"]
            /\ UNCHANGED <<stateVars, statusLog, wrote, outcome, polls>>
  /\ UNCHANGED <<lockVars, mtxVars, nspawns, cfgVars, killSent, origin, spawnOutcome,
                 probeSeen, heldAtInvoke, resp, ncmds>>

SpawnResults == {"log_fail_stdout", "log_fail_stderr", "spawn_fail", "ok"}

\* try_spawn_and_health up to cmd.spawn(): open the child log twice, spawn.
\* Every failure writes NOT_READY and returns; a spawned child is held by
\* the thread until it is installed.
SpawnChild(f) ==
  /\ Running
  /\ pc[f] = "spawn"
  /\ nspawns' = nspawns + 1
  /\ \E o \in SpawnResults :
       /\ spawnOutcome' = [spawnOutcome EXCEPT ![f] = o]
       /\ IF o = "ok"
          THEN /\ pc' = [pc EXCEPT ![f] = "install"]
               /\ UNCHANGED <<stateVars, statusLog, wrote, outcome, polls>>
          ELSE /\ SetState("NOT_READY", None, child)
               /\ Wrote(f, "NOT_READY")
               /\ FlowDone(f, "spawn_failed")
  /\ UNCHANGED <<lockVars, mtxVars, cfgVars, killSent, origin, probeSeen,
                 portSeen, heldAtInvoke, resp, ncmds>>

\* Faulty variant: the handle is installed but the status is left as it was.
InstallChildNoStarting(f) ==
  /\ Running
  /\ pc[f] = "install"
  /\ SetState(status, None, f)
  /\ Wrote(f, status)
  /\ pc' = [pc EXCEPT ![f] = "poll"]
  /\ UNCHANGED <<lockVars, mtxVars, nspawns, cfgVars, killSent, origin, polls, spawnOutcome,
                 probeSeen, portSeen, outcome, heldAtInvoke, resp, ncmds>>

\* Faulty variant: STARTING is written but the reason is not cleared.
InstallChildKeepsReason(f) ==
  /\ Running
  /\ pc[f] = "install"
  /\ SetState("STARTING", not_ready_reason, f)
  /\ Wrote(f, "STARTING")
  /\ pc' = [pc EXCEPT ![f] = "poll"]
  /\ UNCHANGED <<lockVars, mtxVars, nspawns, cfgVars, killSent, origin, polls, spawnOutcome,
                 probeSeen, portSeen, outcome, heldAtInvoke, resp, ncmds>>

\* try_spawn_and_health: STARTING, no reason, child = Some(child).  The Child
\* that was in the slot is dropped, which does not kill it.
InstallChild(f) ==
  /\ Running
  /\ pc[f] = "install"
  /\ SetState("STARTING", None, f)
  /\ Wrote(f, "STARTING")
  /\ pc' = [pc EXCEPT ![f] = "poll"]
  /\ UNCHANGED <<lockVars, mtxVars, nspawns, cfgVars, killSent, origin, polls, spawnOutcome,
                 probeSeen, portSeen, outcome, heldAtInvoke, resp, ncmds>>

\* One iteration of the polling loop before the deadline.
PollHealth(f) ==
  /\ Running
  /\ pc[f] = "poll"
  /\ polls[f] < MaxPolls
  /\ \E r \in Responses :
       /\ resp' = r
       /\ IF poll_health_ok(r)
          THEN /\ SetState("READY", None, child)
               /\ Wrote(f, "READY")
               /\ FlowDone(f, "ready")
          ELSE /\ polls' = [polls EXCEPT ![f] = @ + 1]
               /\ UNCHANGED <<stateVars, statusLog, wrote, pc, outcome>>
  /\ UNCHANGED <<lockVars, mtxVars, nspawns, cfgVars, killSent, origin, spawnOutcome, probeSeen,
                 portSeen, heldAtInvoke, ncmds>>

\* Faulty variant: on the deadline the thread returns without a write.
PollTimeoutSilent(f) ==
  /\ Running
  /\ pc[f] = "poll"
  /\ polls[f] = MaxPolls
  /\ FlowDone(f, "timeout")
  /\ UNCHANGED <<lockVars, mtxVars, nspawns, cfgVars, stateVars, statusLog, wrote,
                 killSent, origin, spawnOutcome, probeSeen, portSeen,
                 heldAtInvoke, resp, ncmds>>

\* Faulty variant: the timeout kills the child it takes out of the state.
PollTimeoutKills(f) ==
  /\ Running
  /\ pc[f] = "poll"
  /\ polls[f] = MaxPolls
  /\ killSent' = TakeAndKill(killSent, child)
  /\ SetState("NOT_READY", None, NoChild)
  /\ Wrote(f, "NOT_READY")
  /\ FlowDone(f, "timeout")
  /\ UNCHANGED <<lockVars, mtxVars, nspawns, cfgVars, origin, spawnOutcome,
                 probeSeen, portSeen, heldAtInvoke, resp, ncmds>>

\* The deadline passed: NOT_READY, no reason, g.child.take() (dropped, not
\* killed).
PollTimeout(f) ==
  /\ Running
  /\ pc[f] = "poll"
  /\ polls[f] = MaxPolls
  /\ SetState("NOT_READY", None, NoChild)
  /\ Wrote(f, "NOT_READY")
  /\ FlowDone(f, "timeout")
  /\ UNCHANGED <<lockVars, mtxVars, nspawns, cfgVars, killSent, origin, spawnOutcome,
                 probeSeen, portSeen, heldAtInvoke, resp, ncmds>>

\* ------------------------------------------------- lock scopes (MutexSpec)
\* The same threads with every lock scope of the source spelled out: a
\* thread is at a blocking operation (probe, port, spawn, poll, sleep,
\* taskkill), waits for the mutex ("lock"), holds it ("locked"), or is done.
Blocking == {"probe", "port", "spawn", "poll", "sleep", "taskkill"}

mtxFrame == <<lockVars, isWindows, autostart, pc, origin, probeSeen, portSeen,
              outcome, wrote, heldAtInvoke, resp, statusLog, ncmds, nspawns>>

\* state.inner.lock() followed by the write pw, then on to position pw.next.
LockFor(t, pw) ==
  /\ mpc' = [mpc EXCEPT ![t] = "lock"]
  /\ pend' = [pend EXCEPT ![t] = pw]

Goto(t, pos) ==
  /\ mpc' = [mpc EXCEPT ![t] = pos]
  /\ UNCHANGED pend

\* The setup closure: spawn the autostart thread, or write NOT_READY when the
\* executable cannot be resolved.
MSetup ==
  /\ ~setupDone
  /\ setupDone' = TRUE
  /\ \E resolved \in BOOLEAN :
       IF autostart /\ resolved
       THEN Goto(AutostartFlow, "probe")
       ELSE IF autostart
            THEN LockFor(AutostartFlow,
                         [st |-> "NOT_READY", r |-> "keep", c |-> "keep", next |-> "done"])
            ELSE UNCHANGED <<mpc, pend>>
  /\ UNCHANGED <<mtxFrame, stateVars, killSent, spawnOutcome, polls, mutex>>

\* retry_backend_start: resolve the path, then lock, take and kill, reset.
MRetry(t) ==
  /\ setupDone
  /\ t # AutostartFlow
  /\ mpc[t] = "idle"
  /\ \E resolved \in BOOLEAN :
       IF resolved
       THEN LockFor(t, [st |-> "NOT_READY", r |-> None, c |-> "takekill", next |-> "spawn"])
       ELSE Goto(t, "done")
  /\ UNCHANGED <<mtxFrame, setupDone, stateVars, killSent, spawnOutcome, polls, mutex>>

\* kill_backend_and_retry is invoked: taskkill runs first, without the mutex.
MKill(t) ==
  /\ setupDone
  /\ t # AutostartFlow
  /\ mpc[t] = "idle"
  /\ Goto(t, "taskkill")
  /\ UNCHANGED <<mtxFrame, setupDone, stateVars, killSent, spawnOutcome, polls, mutex>>

MTaskKill(t) ==
  /\ mpc[t] = "taskkill"
  /\ killSent' = TaskKill(killSent)
  /\ LockFor(t, [st |-> "NOT_READY", r |-> None, c |-> "takekill", next |-> "resolve"])
  /\ UNCHANGED <<mtxFrame, setupDone, stateVars, spawnOutcome, polls, mutex>>

\* kill_backend_and_retry after drop(g): resolve the path, spawn the thread.
MResolve(t) ==
  /\ mpc[t] = "resolve"
  /\ \E resolved \in BOOLEAN : Goto(t, IF resolved THEN "probe" ELSE "done")
  /\ UNCHANGED <<mtxFrame, setupDone, stateVars, killSent, spawnOutcome, polls, mutex>>

MProbe(t) ==
  /\ mpc[t] = "probe"
  /\ \E r \in Responses :
       IF probe_health_ok(r)
       THEN LockFor(t, [st |-> "READY", r |-> None, c |-> "keep", next |-> "done"])
       ELSE Goto(t, "port")
  /\ UNCHANGED <<mtxFrame, setupDone, stateVars, killSent, spawnOutcome, polls, mutex>>

MPort(t) ==
  /\ mpc[t] = "port"
  /\ \E inUse \in BOOLEAN :
       IF inUse
       THEN LockFor(t, [st |-> "NOT_READY", r |-> NOT_READY_REASON_PORT_IN_USE,
                        c |-> "keep", next |-> "done"])
       ELSE Goto(t, "spawn")
  /\ UNCHANGED <<mtxFrame, setupDone, stateVars, killSent, spawnOutcome, polls, mutex>>

MSpawn(t) ==
  /\ mpc[t] = "spawn"
  /\ \E o \in SpawnResults :
       /\ spawnOutcome' = [spawnOutcome EXCEPT ![t] = o]
       /\ IF o = "ok"
          THEN LockFor(t, [st |-> "STARTING", r |-> None, c |-> "install", next |-> "poll"])
          ELSE LockFor(t, [st |-> "NOT_READY", r |-> None, c |-> "keep", next |-> "done"])
  /\ UNCHANGED <<mtxFrame, setupDone, stateVars, killSent, polls, mutex>>

\* The head of the loop and the GET: before the deadline a request is made,
\* after it the timeout write follows.
MPoll(t) ==
  /\ mpc[t] = "poll"
  /\ IF polls[t] < MaxPolls
     THEN \E r \in Responses :
            IF poll_health_ok(r)
            THEN LockFor(t, [st |-> "READY", r |-> None, c |-> "keep", next |-> "done"])
            ELSE Goto(t, "sleep")
     ELSE LockFor(t, [st |-> "NOT_READY", r |-> None, c |-> "take", next |-> "done"])
  /\ UNCHANGED <<mtxFrame, setupDone, stateVars, killSent, spawnOutcome, polls, mutex>>

\* std::thread::sleep(HEALTH_POLL_MS)
MSleep(t) ==
  /\ mpc[t] = "sleep"
  /\ polls' = [polls EXCEPT ![t] = @ + 1]
  /\ Goto(t, "poll")
  /\ UNCHANGED <<mtxFrame, setupDone, stateVars, killSent, spawnOutcome, mutex>>

\* is_backend_ready / get_backend_status is invoked.
MQuery ==
  /\ mpc[UiThread] = "idle"
  /\ LockFor(UiThread, [NoWrite EXCEPT !.next = "idle"])
  /\ UNCHANGED <<mtxFrame, setupDone, stateVars, killSent, spawnOutcome, polls, mutex>>

\* state.inner.lock() returns the guard.
MAcquire(t) ==
  /\ mpc[t] = "lock"
  /\ mutex = MutexFree
  /\ mutex' = t
  /\ mpc' = [mpc EXCEPT ![t] = "locked"]
  /\ UNCHANGED <<mtxFrame, setupDone, stateVars, killSent, spawnOutcome, polls, pend>>

\* Faulty variant: the guard outlives the block that used it.
ReleaseNever(t) == t

\* The guard is dropped at the end of its block (or by drop(g)).
Release(t) == MutexFree

\* The fields are read or written under the guard, and the guard is dropped.
MWriteRelease(t) ==
  /\ mpc[t] = "locked"
  /\ mutex = t
  /\ IF pend[t].st = ""
     THEN UNCHANGED <<stateVars, killSent>>
     ELSE /\ status' = pend[t].st
          /\ not_ready_reason' = IF pend[t].r = "keep" THEN not_ready_reason ELSE pend[t].r
          /\ child' = CASE pend[t].c = "keep" -> child
                        [] pend[t].c = "install" -> t
                        [] OTHER -> NoChild
          /\ killSent' = IF pend[t].c = "takekill"
                         THEN TakeAndKill(killSent, child)
                         ELSE killSent
  /\ mutex' = Release(t)
  /\ mpc' = [mpc EXCEPT ![t] = pend[t].next]
  /\ pend' = [pend EXCEPT ![t] = NoWrite]
  /\ UNCHANGED <<mtxFrame, setupDone, spawnOutcome, polls>>

\* ------------------------------------------------------- specifications
Init == RunInit /\ SupInit

Next ==
  \/ Setup
  \/ RetryBackendStart
  \/ KillBackendAndRetry
  \/ \E f \in Flows : ProbeHealth(f)
  \/ \E f \in Flows : PortCheck(f)
  \/ \E f \in Flows : SpawnChild(f)
  \/ \E f \in Flows : InstallChild(f)
  \/ \E f \in Flows : PollHealth(f)
  \/ \E f \in Flows : PollTimeout(f)
  \/ CloseRequested(Self)

Spec == Init /\ [][Next]_vars

LockSpecInit == LockInit /\ SupInit /\ ~isWindows

LockNext ==
  \/ Tick
  \/ \E i \in Instances : CheckLock(i)
  \/ \E i \in Instances : WriteLock(i)
  \/ \E i \in Instances : CloseRequested(i)
  \/ \E i \in Instances : Crash(i)

LockSpec == LockSpecInit /\ [][LockNext]_vars

FlowStep(f) ==
  \/ ProbeHealth(f)
  \/ PortCheck(f)
  \/ SpawnChild(f)
  \/ InstallChild(f)
  \/ PollHealth(f)
  \/ PollTimeout(f)

\* Every flow thread that can take a step eventually takes one.
FairSpec == Spec /\ \A f \in Flows : WF_vars(FlowStep(f))

MutexNext ==
  \/ MSetup
  \/ MQuery
  \/ \E t \in Flows : MRetry(t)
  \/ \E t \in Flows : MKill(t)
  \/ \E t \in Flows : MTaskKill(t)
  \/ \E t \in Flows : MResolve(t)
  \/ \E t \in Flows : MProbe(t)
  \/ \E t \in Flows : MPort(t)
  \/ \E t \in Flows : MSpawn(t)
  \/ \E t \in Flows : MPoll(t)
  \/ \E t \in Flows : MSleep(t)
  \/ \E t \in Threads : MAcquire(t)
  \/ \E t \in Threads : MWriteRelease(t)

MThreadStep(t) ==
  \/ MTaskKill(t)
  \/ MResolve(t)
  \/ MProbe(t)
  \/ MPort(t)
  \/ MSpawn(t)
  \/ MPoll(t)
  \/ MSleep(t)
  \/ MWriteRelease(t)

\* Threads keep running, and a thread waiting for a mutex that is free again
\* and again gets it.
MutexSpec ==
  /\ Init
  /\ [][MutexNext]_vars
  /\ \A t \in Threads : WF_vars(MThreadStep(t)) /\ SF_vars(MAcquire(t))

\* ----------------------------------------------------------------- claims
FailedSpawns == {"log_fail_stdout", "log_fail_stderr", "spawn_fail"}
Started == {f \in Flows : origin[f] # "none"}

\* C1: while an instance that passed try_single_instance is still running,
\* every other instance's try_single_instance fails and that process exits,
\* however much time has passed.
C1_SecondInstanceRefused ==
  [][\A j \in Instances :
       (/\ ipc[j] = "start"
        /\ ipc'[j] # "start"
        /\ \E i \in Instances \ {j} : ipc[i] = "running")
       => ipc'[j] = "exited"]_vars

C3_AtMostOneLiveChild == Cardinality(Live) <= 1

\* C4: the handle held when a retry or kill-and-retry command ran has been
\* removed from the state and its child sent a kill from the moment the flow
\* of that command exists (so before its spawn attempt), and the handle that
\* flow installs is another child's.
C4_CommandKillsHeldChild ==
  \A f \in Flows :
    (origin[f] \in {"retry", "kill"} /\ heldAtInvoke[f] # NoChild)
      => /\ heldAtInvoke[f] \in killSent
         /\ child # heldAtInvoke[f]
         /\ heldAtInvoke[f] # f

C4_Witness ==
  \E f \in Flows :
    /\ origin[f] = "retry"
    /\ heldAtInvoke[f] # NoChild
    /\ spawnOutcome[f] = "ok"
    /\ child = f

\* C5: a full flow whose initial probe is healthy sets READY with no reason
\* and ends; it makes no spawn attempt and installs no handle.
C5_HealthyProbeNoSpawn ==
  /\ [][\A f \in Flows :
          (pc[f] = "probe" /\ probeSeen'[f] = "healthy")
            => /\ status' = "READY"
               /\ not_ready_reason' = None
               /\ child' = child
               /\ pc'[f] = "done"]_vars
  /\ [](\A f \in Flows :
          probeSeen[f] = "healthy"
            => /\ pc[f] = "done"
               /\ spawnOutcome[f] = "none"
               /\ wrote[f] = <<"READY">>
               /\ f \notin Spawned)

C5_Witness ==
  \E f \in Flows :
    /\ origin[f] = "autostart"
    /\ probeSeen[f] = "healthy"
    /\ pc[f] = "done"
    /\ status = "READY"

\* C6: a full flow whose probe is unhealthy and whose port check reports the
\* port occupied ends with NOT_READY and reason PORT_IN_USE_NO_HEALTH, which
\* get_backend_status shows, and makes no spawn attempt.
C6_PortInUseNoSpawn ==
  /\ [][\A f \in Flows :
          (pc[f] = "port" /\ portSeen'[f] = "occupied")
            => /\ probeSeen[f] = "unhealthy"
               /\ status' = "NOT_READY"
               /\ not_ready_reason' = "PORT_IN_USE_NO_HEALTH"
               /\ get_backend_status(status', not_ready_reason')
                    = "NOT_READY:PORT_IN_USE_NO_HEALTH"
               /\ pc'[f] = "done"]_vars
  /\ [](\A f \in Flows :
          portSeen[f] = "occupied"
            => /\ pc[f] = "done"
               /\ spawnOutcome[f] = "none")

C6_Witness ==
  \E f \in Flows :
    /\ portSeen[f] = "occupied"
    /\ pc[f] = "done"
    /\ get_backend_status(status, not_ready_reason) = "NOT_READY:PORT_IN_USE_NO_HEALTH"

\* C7: when the spawn step of a flow fails, the flow ends with NOT_READY and
\* no reason, never enters STARTING, and no child handle is retained in the
\* shared state.
C7_SpawnFailureLeavesNoHandle ==
  /\ [][\A f \in Flows :
          (pc[f] = "spawn" /\ spawnOutcome'[f] \in FailedSpawns)
            => /\ status' = "NOT_READY"
               /\ not_ready_reason' = None
               /\ child' = NoChild
               /\ pc'[f] = "done"]_vars
  /\ [](\A f \in Flows :
          spawnOutcome[f] \in FailedSpawns => wrote[f] = <<"NOT_READY">>)

\* C8: when the deadline passes with no successful poll, the flow sets
\* NOT_READY with no reason and clears the handle, and sends no kill.
C8_TimeoutDetaches ==
  [][\A f \in Flows :
       (pc[f] = "poll" /\ polls[f] = MaxPolls /\ pc'[f] # "poll")
         => /\ spawnOutcome[f] = "ok"
            /\ status' = "NOT_READY"
            /\ not_ready_reason' = None
            /\ child' = NoChild
            /\ killSent' = killSent
            /\ pc'[f] = "done"]_vars

\* The flow timed out and its child is still alive, out of the state.
C8_Witness ==
  \E f \in Flows :
    /\ outcome[f] = "timeout"
    /\ f \in Live
    /\ child = NoChild
    /\ status = "NOT_READY"

\* C9: a polling flow sets READY only on a response the Health Prober
\* classifies as healthy (success status and a body with the ok marker).
C9_ReadyOnlyOnHealthyBody ==
  [][\A f \in Flows :
       (pc[f] = "poll" /\ pc'[f] = "done" /\ status' = "READY")
         => probe_health_ok(resp')]_vars

\* C10: for a single flow with no concurrent command that spawns and then
\* sees health during polling, get_backend_status shows NOT_READY, then
\* STARTING, then READY; STARTING appears only with the spawned child's
\* handle installed, and READY only after STARTING.
OnlyFlow(f) ==
  /\ Started = {f}
  /\ ncmds = IF origin[f] = "autostart" THEN 0 ELSE 1

C10_SingleFlowSequence ==
  \A f \in Flows :
    OnlyFlow(f)
      => /\ pc[f] \in {"probe", "port", "spawn", "install"}
              => statusLog = <<"NOT_READY">>
         /\ pc[f] = "poll"
              => /\ statusLog = <<"NOT_READY", "STARTING">>
                 /\ spawnOutcome[f] = "ok"
                 /\ child = f
         /\ outcome[f] = "ready"
              => statusLog = <<"NOT_READY", "STARTING", "READY">>

C10_Witness ==
  \E f \in Flows :
    /\ OnlyFlow(f)
    /\ origin[f] = "autostart"
    /\ probeSeen[f] = "unhealthy"
    /\ portSeen[f] = "free"
    /\ spawnOutcome[f] = "ok"
    /\ outcome[f] = "ready"

\* C11: once a retry or kill-and-retry command has started its flow, no
\* earlier flow writes the shared state any more.
C11_NewFlowSupersedes ==
  [][\A f \in Flows :
       wrote'[f] # wrote[f]
         => \A g \in Flows : g > f => origin[g] \notin {"retry", "kill"}]_vars

\* C13: there is no automatic retry: the spawn steps run, and the flows
\* started, number at most one for an enabled autostart plus one per retry or
\* kill-and-retry command invoked.
C13_SpawnsBounded ==
  /\ nspawns <= (IF autostart THEN 1 ELSE 0) + ncmds
  /\ Cardinality(Started) <= (IF autostart THEN 1 ELSE 0) + ncmds
  /\ \A f \in Flows : origin[f] = "autostart" => autostart

C13_Witness ==
  /\ autostart
  /\ ncmds = 1
  /\ nspawns = 2

\* C14: a window close-request removes the lock file and leaves the status,
\* the reason and the child handle unchanged, and sends no kill.
C14_CloseOnlyReleasesLock ==
  [][(ipc[Self] = "running" /\ ipc'[Self] = "closed")
       => /\ ~lockFile'.exists
          /\ status' = status
          /\ not_ready_reason' = not_ready_reason
          /\ child' = child
          /\ killSent' = killSent]_vars

\* The window was closed while a live child was held.
C14_Witness ==
  /\ ipc[Self] = "closed"
  /\ ~lockFile.exists
  /\ child # NoChild
  /\ child \in Live

\* C15: the status is always NOT_READY, STARTING or READY, a reason is set
\* only with NOT_READY, get_backend_status answers one of four strings, and
\* is_backend_ready is true exactly when that answer is READY.
C15_StatusDomain ==
  /\ status \in {"NOT_READY", "STARTING", "READY"}
  /\ not_ready_reason # None => status = "NOT_READY"
  /\ get_backend_status(status, not_ready_reason)
       \in {"READY", "STARTING", "NOT_READY", "NOT_READY:PORT_IN_USE_NO_HEALTH"}
  /\ is_backend_ready(status)
       <=> get_backend_status(status, not_ready_reason) = "READY"

\* All four answers have been observed and the backend is ready.
C15_Witness ==
  /\ is_backend_ready(status)
  /\ {statusLog[i] : i \in 1..Len(statusLog)}
       = {"READY", "STARTING", "NOT_READY", "NOT_READY:PORT_IN_USE_NO_HEALTH"}

C18_TimeoutTakesOwnHandle ==
  [][\A f \in Flows :
       (pc[f] = "poll" /\ outcome'[f] = "timeout")
         => child \in {NoChild, f}]_vars

\* C19: a retry or kill-and-retry command that returns an error leaves the
\* status, the reason and the handle as they were, kills no child and starts
\* no flow.
C19_FailedCommandNoEffect ==
  [][(ncmds' = ncmds + 1 /\ origin' = origin)
       => /\ status' = status
          /\ not_ready_reason' = not_ready_reason
          /\ child' = child
          /\ killSent' = killSent
          /\ pc' = pc]_vars

\* C20: a status of NOT_READY implies that no child handle is held.
C20_NotReadyNoHandle == status = "NOT_READY" => child = NoChild

\* C12: the status, reason and handle change only in a step of the thread
\* that holds the mutex; no thread holds the mutex while it probes, spawns,
\* polls or sleeps; so a status query that waits for the mutex gets it and
\* returns.
C12_MutexDiscipline ==
  /\ [][(status' # status \/ not_ready_reason' # not_ready_reason \/ child' # child)
          => /\ mutex # MutexFree
             /\ mpc[mutex] = "locked"
             /\ mpc'[mutex] # "locked"]_vars
  /\ [](\A t \in Threads :
          /\ mutex = t => mpc[t] = "locked"
          /\ mpc[t] \in Blocking => mutex # t)
  /\ (mpc[UiThread] = "lock") ~> (mpc[UiThread] = "idle")

\* A status query holds the mutex while a flow thread is in its polling loop.
C12_Witness ==
  /\ mutex = UiThread
  /\ mpc[UiThread] = "locked"
  /\ \E t \in Flows : mpc[t] \in {"poll", "sleep"} /\ child = t

\* C17: every flow ends, its last write being READY or NOT_READY; with no
\* flow in flight the status is not STARTING; and while the process runs a
\* status of STARTING is eventually followed by READY or NOT_READY.
C17_FlowsTerminate ==
  /\ [](\A f \in Flows :
          pc[f] = "done"
            => /\ Len(wrote[f]) > 0
               /\ wrote[f][Len(wrote[f])] \in {"READY", "NOT_READY"})
  /\ []((\A f \in Flows : pc[f] \in {"idle", "done"}) => status # "STARTING")
  /\ \A f \in Flows :
       (pc[f] \notin {"idle", "done"}) ~> (pc[f] = "done" \/ ~Running)
  /\ (status = "STARTING") ~> (status \in {"READY", "NOT_READY"} \/ ~Running)

\* Two overlapping flows have both ended, one of them on its timeout.
C17_Witness ==
  /\ Cardinality(Started) = 2
  /\ \A f \in Started : pc[f] = "done"
  /\ \E f \in Started : outcome[f] = "timeout"
  /\ \E f \in Started : outcome[f] = "ready"

====
